---- MODULE Spec2Model ----
(***************************************************************************)
(* Model of the ExcelWordExporter component (src/src/ExcelWordExporter.js): *)
(* the session state held in React state hooks, the import pipeline        *)
(* (header detection, row mapping), row selection, and the spreadsheet     *)
(* export (column resolution, numeric reconciliation, worksheet assembly). *)
(*                                                                         *)
(* Text is a sequence of one-character tokens.  Characters outside ASCII   *)
(* are named: "deg" is the degree sign, "e_acute"/"E_acute" the            *)
(* precomposed accented letters, "acute" the combining acute accent        *)
(* (U+0301), "nbsp" the no-break space, "tab" the tabulator.               *)
(***************************************************************************)
EXTENDS Integers, Sequences, FiniteSets, TLC

VARIABLES data, selectedRows, fileName, showError, errorMessage, reads, fetches, out

vars == <<data, selectedRows, fileName, showError, errorMessage, reads, fetches, out>>

-----------------------------------------------------------------------------
(* Bounds of the model *)

\* longest grid (rows of the decoded sheet) a file may hold
MaxGridRows == 3
\* most FileReader loads in flight at once
MaxReads == 1

\* longest header label of the label specification
MaxLabelLen == 4
\* most FileReader loads in flight at once where two imports overlap
MaxRaceReads == 2
\* most document exports waiting for the template at once
MaxFetches == 1

-----------------------------------------------------------------------------
(* Characters and strings *)

UpperLetters == <<"A","B","C","D","E","F","G","H","I","J","K","L","M",
                  "N","O","P","Q","R","S","T","U","V","W","X","Y","Z","E_acute">>
LowerLetters == <<"a","b","c","d","e","f","g","h","i","j","k","l","m",
                  "n","o","p","q","r","s","t","u","v","w","x","y","z","e_acute">>

\* characters matched by \s and removed by String.prototype.trim
WhiteSpace == {" ", "tab", "nbsp"}

\* characters of the range U+0300..U+036F that occur in the model
CombiningMarks == {"acute"}

Digits == <<"0","1","2","3","4","5","6","7","8","9">>

RECURSIVE IndexOf(_, _, _)
\* least i >= from with seq[i] = x, or 0
IndexOf(seq, x, from) ==
  IF from > Len(seq) THEN 0
  ELSE IF seq[from] = x THEN from
  ELSE IndexOf(seq, x, from + 1)

\* String.prototype.includes
Includes(s, sub) ==
  \E i \in 0..(Len(s) - Len(sub)) : SubSeq(s, i + 1, i + Len(sub)) = sub

\* String.prototype.normalize("NFD") on one character
NFDChar(c) ==
  CASE c = "e_acute" -> <<"e", "acute">>
    [] c = "E_acute" -> <<"E", "acute">>
    [] OTHER -> <<c>>

RECURSIVE NFDFrom(_, _)
NFDFrom(s, i) == IF i > Len(s) THEN <<>> ELSE NFDChar(s[i]) \o NFDFrom(s, i + 1)

\* String.prototype.normalize("NFD")
NFD(s) == NFDFrom(s, 1)

\* .replace(/[\u0300-\u036f]/g, "")
StripMarks(s) == SelectSeq(s, LAMBDA c : c \notin CombiningMarks)

UpperSet == {UpperLetters[i] : i \in 1..Len(UpperLetters)}

LowerOf == [c \in UpperSet |-> LowerLetters[IndexOf(UpperLetters, c, 1)]]

ToLowerChar(c) == IF c \in UpperSet THEN LowerOf[c] ELSE c

\* String.prototype.toLowerCase
ToLowerCase(s) == [i \in 1..Len(s) |-> ToLowerChar(s[i])]

RECURSIVE TrimStart(_)
TrimStart(s) ==
  IF s # <<>> /\ Head(s) \in WhiteSpace THEN TrimStart(Tail(s)) ELSE s

RECURSIVE TrimEnd(_)
TrimEnd(s) ==
  IF s # <<>> /\ s[Len(s)] \in WhiteSpace THEN TrimEnd(SubSeq(s, 1, Len(s) - 1)) ELSE s

\* String.prototype.trim
Trim(s) == TrimEnd(TrimStart(s))

\* .replace(/\s+/g, " "): the first character of each white-space run
\* becomes a space, the others of the run go
CollapseSpaces(s) ==
  LET kept == SelectSeq([i \in 1..Len(s) |-> [c |-> s[i], first |-> i = 1 \/ s[i - 1] \notin WhiteSpace]],
                        LAMBDA x : x.c \notin WhiteSpace \/ x.first)
  IN [i \in 1..Len(kept) |-> IF kept[i].c \in WhiteSpace THEN " " ELSE kept[i].c]

-----------------------------------------------------------------------------
(* JavaScript values: strings, numbers and undefined.  A number is the     *)
(* decimal m * 10^(-e), kept with no trailing zero in the fraction.        *)

Str(s) == [t |-> "str", s |-> s, m |-> 0, e |-> 0]
Undefined == [t |-> "undef", s |-> <<>>, m |-> 0, e |-> 0]
NaN == [t |-> "nan", s |-> <<>>, m |-> 0, e |-> 0]

RECURSIVE Num(_, _)
Num(m, e) ==
  IF e > 0 /\ m % 10 = 0 THEN Num(m \div 10, e - 1)
  ELSE [t |-> "num", s |-> <<>>, m |-> m, e |-> e]

\* a * b on numbers
Times(a, b) == Num(a.m * b.m, a.e + b.e)

\* ToBoolean
Truthy(v) ==
  CASE v.t = "str" -> v.s # <<>>
    [] v.t = "num" -> v.m # 0
    [] OTHER -> FALSE

\* a || b
OrElse(a, b) == IF Truthy(a) THEN a ELSE b

\* the steps in another order: the marks are removed before the string is decomposed
normalizeStringStripFirst(v) ==
  IF v.t # "str" THEN <<>>
  ELSE CollapseSpaces(Trim(ToLowerCase(NFD(StripMarks(v.s)))))

\* the last step left out: white-space runs keep their length
normalizeStringNoCollapse(v) ==
  IF v.t # "str" THEN <<>>
  ELSE Trim(ToLowerCase(StripMarks(NFD(v.s))))

\* the string normalizeString receives: typeof str !== "string" gives ""
normalizeString(v) ==
  IF v.t # "str" THEN <<>>
  ELSE CollapseSpaces(Trim(ToLowerCase(StripMarks(NFD(v.s)))))

DigitSet == {Digits[i] : i \in 1..Len(Digits)}

DigitOf == [c \in DigitSet |-> IndexOf(Digits, c, 1) - 1]

RECURSIVE DigitRun(_)
\* the longest prefix of s made of decimal digits
DigitRun(s) ==
  IF s # <<>> /\ Head(s) \in DigitSet
  THEN <<Head(s)>> \o DigitRun(Tail(s))
  ELSE <<>>

RECURSIVE DigitsValue(_)
DigitsValue(ds) ==
  IF ds = <<>> THEN 0
  ELSE 10 * DigitsValue(SubSeq(ds, 1, Len(ds) - 1)) + DigitOf[ds[Len(ds)]]

\* String(value) as parseFloat sees it; "undefined" holds no digit
ToText(v) ==
  CASE v.t = "str" -> v.s
    [] OTHER -> <<"u","n","d","e","f","i","n","e","d">>

\* parseFloat: leading white space, optional sign, digits, optional fraction;
\* the longest such prefix, NaN when it holds no digit
parseFloat(v) ==
  IF v.t = "num" THEN v
  ELSE
    LET s0 == TrimStart(ToText(v))
        neg == s0 # <<>> /\ Head(s0) = "-"
        s1 == IF s0 # <<>> /\ Head(s0) \in {"-", "+"} THEN Tail(s0) ELSE s0
        ip == DigitRun(s1)
        s2 == SubSeq(s1, Len(ip) + 1, Len(s1))
        fp == IF s2 # <<>> /\ Head(s2) = "." THEN DigitRun(Tail(s2)) ELSE <<>>
        mag == DigitsValue(ip \o fp)
    IN IF ip = <<>> /\ fp = <<>> THEN NaN
       ELSE Num(IF neg THEN 0 - mag ELSE mag, Len(fp))

\* parseNumber without its isNaN guard
parseNumberUnguarded(v) == parseFloat(v)

\* const parseNumber = (value) => { const num = parseFloat(value); return !isNaN(num) ? num : 0; }
parseNumber(v) ==
  LET num == parseFloat(v) IN IF num.t # "nan" THEN num ELSE Num(0, 0)

-----------------------------------------------------------------------------
(* JavaScript objects: the own keys of an object in the order Object.keys   *)
(* lists them (integer-like keys ascending, then the other keys in          *)
(* insertion order), as a sequence of key/value pairs.                      *)

RECURSIVE KeyIndex(_, _, _)
\* position of key k in obj at or after from, or 0
KeyIndex(obj, k, from) ==
  IF from > Len(obj) THEN 0
  ELSE IF obj[from].k = k THEN from
  ELSE KeyIndex(obj, k, from + 1)

\* a key that is an array index: a canonical decimal numeral below 2^32 - 1
\* (numerals of up to nine digits here; no longer key is ever built)
IsArrayIndex(k) ==
  /\ k # <<>>
  /\ \A i \in 1..Len(k) : k[i] \in DigitSet
  /\ (Len(k) > 1 => k[1] # "0")
  /\ Len(k) <= 9

\* obj[k] = v: an existing key keeps its position and takes the new value; a
\* new integer-like key goes after the smaller integer-like keys, any other
\* new key goes last
ObjSet(obj, k, v) ==
  LET i == KeyIndex(obj, k, 1)
      before == IF IsArrayIndex(k)
                THEN Cardinality({j \in 1..Len(obj) :
                       IsArrayIndex(obj[j].k) /\ DigitsValue(obj[j].k) < DigitsValue(k)})
                ELSE Len(obj)
  IN IF i = 0
     THEN SubSeq(obj, 1, before) \o <<[k |-> k, v |-> v]>> \o SubSeq(obj, before + 1, Len(obj))
     ELSE [obj EXCEPT ![i] = [k |-> k, v |-> v]]

\* obj[k]
ObjGet(obj, k) ==
  LET i == KeyIndex(obj, k, 1) IN IF i = 0 THEN Undefined ELSE obj[i].v

\* Object.keys(obj)
ObjKeys(obj) == [i \in 1..Len(obj) |-> obj[i].k]

\* Object.values(obj)
ObjValues(obj) == [i \in 1..Len(obj) |-> obj[i].v]

RECURSIVE ToDigits(_)
\* decimal digits of a natural number, as in a template literal
ToDigits(n) ==
  IF n < 10 THEN <<Digits[n + 1]>> ELSE ToDigits(n \div 10) \o <<Digits[(n % 10) + 1]>>

-----------------------------------------------------------------------------
(* Import pipeline of reader.onload *)

\* the anchor label looked for in the header row
Anchor == <<"n", "deg", " ", "p", "r", "i", "x">>

\* row.some(cell => typeof cell === "string" && normalizeString(cell).includes("n° prix"))
IsHeaderRow(row) ==
  \E c \in 1..Len(row) : row[c].t = "str" /\ Includes(normalizeString(row[c]), Anchor)

\* the scan without its break: the last header row at or after i wins
FindHeaderRowNoBreak(raw_data, i) ==
  LET hits == {j \in i..(Len(raw_data) - 1) : IsHeaderRow(raw_data[j + 1])}
  IN IF hits = {} THEN -1 ELSE CHOOSE j \in hits : \A h \in hits : h <= j

RECURSIVE FindHeaderRow(_, _)
\* the for loop with break: index (0-based) of the first header row at or after i, else -1
FindHeaderRow(raw_data, i) ==
  IF i >= Len(raw_data) THEN -1
  ELSE IF IsHeaderRow(raw_data[i + 1]) THEN i
  ELSE FindHeaderRow(raw_data, i + 1)

\* const key = normalizeString(header || `col_${index}`), index 0-based
HeaderKey(header, index) ==
  normalizeString(OrElse(header, Str(<<"c", "o", "l", "_">> \o ToDigits(index))))

RECURSIVE RowToObject(_, _, _, _)
\* headers.forEach((header, index) => { obj[key] = index < row.length ? row[index] : "" })
RowToObject(headers, row, index, obj) ==
  IF index >= Len(headers) THEN obj
  ELSE RowToObject(headers, row, index + 1,
         ObjSet(obj, HeaderKey(headers[index + 1], index),
                IF index < Len(row) THEN row[index + 1] ELSE Str(<<>>)))

\* String(val).trim() !== ""
NonBlank(val) == Trim(ToText(val)) # <<>>

\* the filter without its trim: a value of white space counts as a value
HasValueUntrimmed(obj) == \E i \in 1..Len(obj) : ToText(obj[i].v) # <<>>

\* Object.values(obj).some(val => String(val).trim() !== "")
HasValue(obj) == \E i \in 1..Len(obj) : NonBlank(obj[i].v)

\* dataRows.filter(row => row && row.length > 0).map(...).filter(...)
MapRows(headers, dataRows) ==
  LET kept == SelectSeq(dataRows, LAMBDA row : Len(row) > 0)
      objs == [i \in 1..Len(kept) |-> RowToObject(headers, kept[i], 0, <<>>)]
  IN SelectSeq(objs, HasValue)

ErrHeader == "Could not detect header row. Please make sure 'N deg PRIX' column exists."
ErrNoData == "No valid data found after header row."
ErrFileType == "Invalid file type. Please select an Excel file (.xlsx, .xls, or .csv)."
\* a read failure that carries no text
ErrReadEmpty == ""
ErrRead == "Error reading Excel file. Please check format."
ErrNoRows == "No rows selected. Please select at least one row."
ErrCanceled == "Export canceled by user."
ErrTemplate == "Could not load the royaume template"
ErrExportFailed == "Export failed: Unknown error"

\* the try block without the headerRowIndex === -1 check: row 0 is taken as
\* the header row when none is found
ParseSheetUnchecked(raw_data) ==
  LET found == FindHeaderRow(raw_data, 0)
      headerRowIndex == IF found = -1 THEN 0 ELSE found
      headers == raw_data[headerRowIndex + 1]
      dataRows == SubSeq(raw_data, headerRowIndex + 2, Len(raw_data))
      jsonData == MapRows(headers, dataRows)
  IN IF Len(jsonData) = 0
     THEN [ok |-> FALSE, error |-> ErrNoData, headerRowIndex |-> headerRowIndex, jsonData |-> <<>>]
     ELSE [ok |-> TRUE, error |-> "", headerRowIndex |-> headerRowIndex, jsonData |-> jsonData]

\* the try block without the jsonData.length === 0 check: an empty list of
\* records is installed
ParseSheetNoEmptyCheck(raw_data) ==
  LET headerRowIndex == FindHeaderRow(raw_data, 0)
      headers == raw_data[headerRowIndex + 1]
      dataRows == SubSeq(raw_data, headerRowIndex + 2, Len(raw_data))
  IN IF headerRowIndex = -1
     THEN [ok |-> FALSE, error |-> ErrHeader, headerRowIndex |-> -1, jsonData |-> <<>>]
     ELSE [ok |-> TRUE, error |-> "", headerRowIndex |-> headerRowIndex,
           jsonData |-> MapRows(headers, dataRows)]

\* the body of the try block of reader.onload on a decoded sheet: what it
\* throws, or the records it installs
ParseSheet(raw_data) ==
  LET headerRowIndex == FindHeaderRow(raw_data, 0)
      headers == raw_data[headerRowIndex + 1]
      dataRows == SubSeq(raw_data, headerRowIndex + 2, Len(raw_data))
      jsonData == MapRows(headers, dataRows)
  IN IF headerRowIndex = -1
     THEN [ok |-> FALSE, error |-> ErrHeader, headerRowIndex |-> -1, jsonData |-> <<>>]
     ELSE IF Len(jsonData) = 0
     THEN [ok |-> FALSE, error |-> ErrNoData, headerRowIndex |-> headerRowIndex, jsonData |-> <<>>]
     ELSE [ok |-> TRUE, error |-> "", headerRowIndex |-> headerRowIndex, jsonData |-> jsonData]

-----------------------------------------------------------------------------
(* Spreadsheet export: column resolution, reconciliation, worksheet *)

\* the scan that keeps the last matching key at or after i instead of the first
FindKeyLast(keys, marker, i) ==
  LET hits == {j \in i..Len(keys) : Includes(normalizeString(Str(keys[j])), marker)}
  IN IF hits = {} THEN Undefined ELSE Str(keys[CHOOSE j \in hits : \A h \in hits : h <= j])

RECURSIVE FindKey(_, _, _)
\* Object.keys(data[0]).find(col => normalizeString(col).includes(marker))
FindKey(keys, marker, i) ==
  IF i > Len(keys) THEN Undefined
  ELSE IF Includes(normalizeString(Str(keys[i])), marker) THEN Str(keys[i])
  ELSE FindKey(keys, marker, i + 1)

\* find(...) || fallback, as the key used to index a row
ResolveColumn(keys, marker, fallback) ==
  OrElse(FindKey(keys, marker, 1), Str(normalizeString(Str(fallback)))).s

MarkerTitle == <<"d","e","s","i","g","n","a","t","i","o","n">>
MarkerUnit == <<"u","n","i","t","e">>
MarkerQty == <<"q","u","a","n","t","i","t","e">>
MarkerPrice == <<"p",".","u">>
MarkerTotal == <<"m","o","n","t","a","n","t"," ","t","o","t","a","l"," ","h",".","t">>

DefaultNPrix == <<"N","deg"," ","P","r","i","x">>
DefaultTitle == MarkerTitle \o <<" ","d","e","s"," ","o","u","v","r","a","g","e","s">>
DefaultUnit == <<"u","n","i","t","e">>
DefaultQty == <<"q","u","a","n","t","i","t","e","s">>
DefaultPrice == <<"p",".","u"," ","d","h",".","h","t">>
DefaultTotal == <<"M","o","n","t","a","n","t"," ","t","o","t","a","l"," ","H",".","T">>

SansTitre == <<"S","a","n","s"," ","T","i","t","r","e">>

\* the six const ...Col declarations of exportExcelFile
ExcelColumns(keys) ==
  [nPrixCol |-> ResolveColumn(keys, Anchor, DefaultNPrix),
   titleCol |-> ResolveColumn(keys, MarkerTitle, DefaultTitle),
   unitCol  |-> ResolveColumn(keys, MarkerUnit, DefaultUnit),
   qtyCol   |-> ResolveColumn(keys, MarkerQty, DefaultQty),
   priceCol |-> ResolveColumn(keys, MarkerPrice, DefaultPrice),
   totalCol |-> ResolveColumn(keys, MarkerTotal, DefaultTotal)]

\* the total taken from the source alone, never recomputed
TotalOfSourceOnly(totalFromSource, qty, price) == totalFromSource

\* "Montant Total HT": totalFromSource || qty * price
TotalOf(totalFromSource, qty, price) == OrElse(totalFromSource, Times(qty, price))

\* "N°Prix": row[nPrixCol] || ""
CodeOf(row, cols) == OrElse(ObjGet(row, cols.nPrixCol), Str(<<>>))

\* the callback of selected.map in exportExcelFile
ExcelRow(row, cols) ==
  LET qty == parseNumber(ObjGet(row, cols.qtyCol))
      price == parseNumber(ObjGet(row, cols.priceCol))
      totalFromSource == parseNumber(ObjGet(row, cols.totalCol))
  IN [nPrix       |-> CodeOf(row, cols),
      designation |-> OrElse(ObjGet(row, cols.titleCol), Str(SansTitre)),
      unite       |-> OrElse(ObjGet(row, cols.unitCol), Str(<<>>)),
      quantite    |-> qty,
      pu          |-> price,
      montant     |-> TotalOf(totalFromSource, qty, price)]

\* the header labels written into row 0 of the worksheet
SheetHeaders ==
  <<Str(<<"N","deg","P","r","i","x">>),
    Str(<<"D","e_acute","s","i","g","n","a","t","i","o","n">>),
    Str(<<"U","n","i","t","e_acute">>),
    Str(<<"Q","u","a","n","t","i","t","e_acute">>),
    Str(<<"P",".","U"," ","D","H",".","H","T">>),
    Str(<<"M","o","n","t","a","n","t"," ","T","o","t","a","l"," ","H","T">>)>>

\* the cells of one object, in key order
RowCells(r) == <<r.nPrix, r.designation, r.unite, r.quantite, r.pu, r.montant>>

\* XLSX.utils.json_to_sheet(rows, { skipHeader }): one sheet row per object,
\* from row 0 on when the header row is skipped, below a row of keys otherwise
JsonToSheet(rows, skipHeader) ==
  LET cells == [i \in 1..Len(rows) |-> RowCells(rows[i])]
  IN IF skipHeader THEN cells ELSE <<SheetHeaders>> \o cells

\* headers.forEach((header, colIndex) => ws[encode_cell({ r: 0, c: colIndex })] = ...):
\* the six cells of sheet row 0 are replaced; the sheet range is not extended
WriteHeaders(ws) ==
  IF Len(ws) = 0 THEN ws ELSE [ws EXCEPT ![1] = SheetHeaders]

\* Number(v) on a cell value: a number as it is, a blank string 0, a string
\* that is a decimal literal its value, anything else NaN
ToNumber(v) ==
  IF v.t = "num" THEN v
  ELSE IF v.t # "str" THEN NaN
  ELSE LET s0 == Trim(v.s)
           s1 == IF s0 # <<>> /\ Head(s0) \in {"-", "+"} THEN Tail(s0) ELSE s0
           ip == DigitRun(s1)
           s2 == SubSeq(s1, Len(ip) + 1, Len(s1))
           dot == s2 # <<>> /\ Head(s2) = "."
           fp == IF dot THEN DigitRun(Tail(s2)) ELSE <<>>
           used == Len(ip) + (IF dot THEN 1 + Len(fp) ELSE 0)
       IN IF s0 = <<>> THEN Num(0, 0)
          ELSE IF used = Len(s1) /\ Len(ip) + Len(fp) > 0 THEN parseFloat(Str(s0))
          ELSE NaN

\* the styling loop over sheet rows 1..excelData.length, columns 3, 4, 5
StyleCells(ws, n) ==
  [r \in 1..Len(ws) |->
     IF r - 1 >= 1 /\ r - 1 <= n
     THEN [c \in 1..6 |-> IF c - 1 \in {3, 4, 5} THEN ToNumber(ws[r][c]) ELSE ws[r][c]]
     ELSE ws[r]]

\* the worksheet handed to XLSX.write
BuildSheet(excelData) ==
  StyleCells(WriteHeaders(JsonToSheet(excelData, TRUE)), Len(excelData))

RECURSIVE LastIndexOf(_, _, _)
LastIndexOf(s, c, i) ==
  IF i = 0 THEN 0 ELSE IF s[i] = c THEN i ELSE LastIndexOf(s, c, i - 1)

\* fileName.replace(/\.[^/.]+$/, "")
StripExtension(name) ==
  LET d == LastIndexOf(name, ".", Len(name))
  IN IF d > 0 /\ d < Len(name) /\ \A j \in (d + 1)..Len(name) : name[j] # "/"
     THEN SubSeq(name, 1, d - 1)
     ELSE name

ExportFileName(name) ==
  IF name # <<>>
  THEN <<"e","x","p","o","r","t","_">> \o StripExtension(name) \o <<".","x","l","s","x">>
  ELSE <<"p","r","o","j","e","c","t","_","e","x","p","o","r","t",".","x","l","s","x">>

\* what saveFile does: the browser download, or the native dialog with its
\* ways to end (written and shown, canceled, write failed, written but the
\* folder could not be opened)
SaveOutcomes == {"browser", "native_saved", "native_canceled", "native_write_failed",
                 "native_open_failed"}

SaveWritten(o) == o \in {"browser", "native_saved", "native_open_failed"}
SaveSuccess(o) == o \in {"browser", "native_saved"}

-----------------------------------------------------------------------------
(* Document export *)

MarkerDesc == <<"d","e","s","c","r","i","p","t","i","f">>

\* find(...) || fallback of exportWordFile: the fallback is used as written
ResolveWordColumn(keys, marker, fallback) ==
  OrElse(FindKey(keys, marker, 1), Str(fallback)).s

\* the two const ...Col declarations of exportWordFile
WordColumns(keys) ==
  [titleCol |-> ResolveWordColumn(keys, MarkerTitle, DefaultTitle),
   descCol  |-> ResolveWordColumn(keys, MarkerDesc, MarkerDesc)]

\* the callback with the 0-based index as the id
WordEntryZeroBased(row, cols, indexId) ==
  [id         |-> Num(indexId, 0),
   title      |-> OrElse(ObjGet(row, cols.titleCol), Str(SansTitre)),
   descriptif |-> OrElse(ObjGet(row, cols.descCol), Str(<<>>))]

\* the callback of selected.map in exportWordFile; indexId is 0-based
WordEntry(row, cols, indexId) ==
  [id         |-> Num(indexId + 1, 0),
   title      |-> OrElse(ObjGet(row, cols.titleCol), Str(SansTitre)),
   descriptif |-> OrElse(ObjGet(row, cols.descCol), Str(<<>>))]

WordFileName(name) ==
  IF name # <<>>
  THEN <<"d","e","s","c","r","i","p","t","i","o","n","s","_">> \o StripExtension(name)
         \o <<".","d","o","c","x">>
  ELSE <<"p","r","o","j","e","c","t","_","d","e","s","c","r","i","p","t","i","o","n","s",
         ".","d","o","c","x">>

\* how loading and rendering the template can end: the response is not ok,
\* fetch / PizZip / Docxtemplater throws, doc.render throws, or all succeed
TemplateOutcomes == {"ok", "not_ok", "load_throws", "render_throws"}

\* a failed load or render taken for a success
TemplateOkAlways(template) == TRUE

\* the template was fetched with an ok response, read and rendered without a throw
TemplateOk(template) == template = "ok"

-----------------------------------------------------------------------------
(* Table header *)

MarkerQtyShown == <<"q","u","a","n","t","i","t">>
MarkerTotalShown == <<"m","o","t","a","n","t">>
MarkerDescShown == <<"d","e","s","c","r","i","p","t","i","o","n">>

ShownCode == <<"C","o","d","e">>
ShownTitle == <<"D","e_acute","s","i","g","n","a","t","i","o","n">>
ShownUnit == <<"U","n","i","t","e_acute">>
ShownQty == <<"Q","t","e_acute">>
ShownPrice == <<"P",".","U"," ","H","T">>
ShownTotal == <<"T","o","t","a","l"," ","H","T">>
ShownDesc == <<"D","e","s","c","r","i","p","t","i","o","n"," ","(","l","o","n","g","u","e",")">>

\* the displayName of a column of the table: the if / else if chain over the
\* normalized key, the key itself when no marker is found
DisplayName(key) ==
  LET n == normalizeString(Str(key))
  IN IF Includes(n, Anchor) THEN ShownCode
     ELSE IF Includes(n, MarkerTitle) THEN ShownTitle
     ELSE IF Includes(n, MarkerUnit) THEN ShownUnit
     ELSE IF Includes(n, MarkerQtyShown) THEN ShownQty
     ELSE IF Includes(n, MarkerPrice) THEN ShownPrice
     ELSE IF Includes(n, MarkerTotalShown) THEN ShownTotal
     ELSE IF Includes(n, MarkerDescShown) THEN ShownDesc
     ELSE key

-----------------------------------------------------------------------------
(* Inputs *)

Blank == Str(<<>>)

\* a header row as the source spreadsheets spell it
HeaderRow ==
  <<Str(<<"N","deg"," ","P","R","I","X">>),
    Str(<<"D","e_acute","s","i","g","n","a","t","i","o","n">>),
    Str(<<"U","n","i","t","e_acute">>),
    Str(<<"Q","u","a","n","t","i","t","e_acute","s">>),
    Str(<<"P",".","U"," ","D","H",".","H","T">>),
    Str(<<"M","o","n","t","a","n","t"," ","t","o","t","a","l"," ","H",".","T">>),
    Str(<<"D","e","s","c","r","i","p","t","i","f">>)>>

NCols == Len(HeaderRow)

BlankRow == [c \in 1..NCols |-> Blank]

\* a data row: code, title, unit, quantity, unit price, total, description
DataRow(code, title, unit, qty, price, total, desc) ==
  <<Str(code), Str(title), Str(unit), Str(qty), Str(price), Str(total), Str(desc)>>

RowA == DataRow(<<"A">>, <<"t","1">>, <<"m">>, <<"3">>, <<"1","0",".","5">>, <<>>, <<"d","1">>)
RowB == DataRow(<<"7">>, <<"t","2">>, <<"u">>, <<"2">>, <<"5">>, <<"9","9","9">>, <<"d","2">>)

\* the rows a sheet of the session specification is made of
RowVocabulary == {BlankRow, HeaderRow, RowA, RowB}

RECURSIVE SeqsUpTo(_, _)
\* all sequences over S of length at most n
SeqsUpTo(S, n) ==
  IF n = 0 THEN {<<>>}
  ELSE LET shorter == SeqsUpTo(S, n - 1)
       IN shorter \cup {Append(q, x) : q \in {r \in shorter : Len(r) = n - 1}, x \in S}

\* a decoded sheet, or a file XLSX.read / decode_range throws on
Sheet(rows) == [readable |-> TRUE, raw_data |-> rows]
Unreadable == [readable |-> FALSE, raw_data |-> <<>>]

Sheets == {Sheet(g) : g \in SeqsUpTo(RowVocabulary, MaxGridRows) \ {<<>>}} \cup {Unreadable}

\* each sheet with what the try block of reader.onload makes of it
LoadsOf(sheets) == {[sheet |-> sh, parsed |-> ParseSheet(sh.raw_data)] : sh \in sheets}

Loads == LoadsOf(Sheets)

\* a header row whose quantity and total columns carry no label
HeaderRowPartial == [c \in 1..NCols |-> IF c \in {4, 6} THEN Blank ELSE HeaderRow[c]]

QtyCells == {<<"3">>, <<"a","b","c">>, <<>>}
PriceCells == {<<"1","0",".","5">>, <<"5">>, <<>>}
TotalCells == {<<>>, <<"9","9","9">>, <<"0">>, <<"-","2">>, <<"x">>}

\* one-record sheets over all quantity, price and total cells
NumericSheets ==
  {Sheet(<<h, DataRow(<<"A">>, <<"t","1">>, <<"m">>, q, p, t, <<"d","1">>)>>) :
     h \in {HeaderRow, HeaderRowPartial}, q \in QtyCells, p \in PriceCells, t \in TotalCells}

NumericLoads == LoadsOf(NumericSheets)

\* header rows as files in the field spell them: the total column without a
\* label, only the anchor labelled, labels in another spelling, labels that
\* repeat, labels that are white space or numerals
HeaderRowNoTotal == [c \in 1..NCols |-> IF c = 6 THEN Blank ELSE HeaderRow[c]]

HeaderRowBare == [c \in 1..NCols |-> IF c = 1 THEN HeaderRow[c] ELSE Blank]

HeaderRowTypo ==
  [HeaderRow EXCEPT
     ![4] = Str(<<"Q","u","a","n","t","i","t","y">>),
     ![6] = Str(<<"M","o","t","a","n","t"," ","t","o","t","a","l"," ","H",".","T">>)]

HeaderRowRepeat ==
  [HeaderRow EXCEPT
     ![5] = Str(<<"U","n","i","t","e_acute","s">>),
     ![7] = Str(<<"U","N","I","T","E">>)]

HeaderRowOdd ==
  [HeaderRow EXCEPT
     ![2] = Str(<<" ">>),
     ![3] = Str(<<"tab">>),
     ![4] = Str(<<"2">>),
     ![5] = Str(<<"1">>),
     ![6] = Blank]

HeaderVariants ==
  {HeaderRow, HeaderRowNoTotal, HeaderRowBare, HeaderRowTypo, HeaderRowRepeat, HeaderRowOdd}

\* a data row holding white space only
SpaceRow ==
  <<Str(<<" ">>), Blank, Str(<<"nbsp">>), Blank, Str(<<"tab", " ">>), Blank, Str(<<" ", " ">>)>>

\* a data row with a unit and nothing else
LoneUnitRow == [BlankRow EXCEPT ![3] = Str(<<"m">>)]

DataRowVariants == {RowA, RowB, BlankRow, SpaceRow, LoneUnitRow}

\* sheets of one header row followed by data rows
HeaderSheets ==
  {Sheet(<<h>> \o rows) : h \in HeaderVariants,
                          rows \in SeqsUpTo(DataRowVariants, MaxGridRows - 1) \ {<<>>}}

HeaderLoads == LoadsOf(HeaderSheets)

\* one file per way an import can end: a Dataset of one record, of two
\* records, no header row, no record under the header row, not readable
RecoverySheets ==
  {Sheet(<<HeaderRow, RowA>>), Sheet(<<HeaderRow, RowB, RowA>>), Sheet(<<RowA, RowB>>),
   Sheet(<<HeaderRow, BlankRow>>), Unreadable}

RecoveryLoads == LoadsOf(RecoverySheets)

\* header labels over a letter, an accented letter, a combining mark and
\* two kinds of white space, and a cell that holds a number
LabelChars == {"A", "E_acute", "acute", " ", "tab"}

Labels == {Str(l) : l \in SeqsUpTo(LabelChars, MaxLabelLen)} \cup {Num(7, 0)}

\* the anchor label as sheets spell it
AnchorSpellings ==
  {HeaderRow[1], Str(<<"n","deg","p","r","i","x">>), Str(<<"N","deg"," "," ","P","r","i","x">>)}

\* two-column sheets: the anchor and a label over one data row
LabelSheets ==
  {Sheet(<<<<a, l>>, <<Str(<<"A">>), Str(<<"x">>)>>>>) :
     a \in {HeaderRow[1]}, l \in Labels}
  \cup {Sheet(<<<<a, l>>, <<Str(<<"A">>), Str(<<"x">>)>>>>) :
          a \in AnchorSpellings, l \in {Blank}}

LabelLoads == LoadsOf(LabelSheets)

NameXlsx == <<"a",".","x","l","s","x">>
NameCsv == <<"b",".","C","S","V">>
NameTxt == <<"c",".","t","x","t">>
NameNoDot == <<"d","o","c">>
NameDouble == <<"e",".","x","l","s",".","t","x","t">>
FileNames == {NameXlsx, NameCsv, NameTxt, NameNoDot, NameDouble}

ValidExtensions == {<<".","x","l","s","x">>, <<".","x","l","s">>, <<".","c","s","v">>}

\* the extension taken without toLowerCase
FileExtensionCaseSensitive(name) ==
  LET d == LastIndexOf(name, ".", Len(name))
  IN IF d = 0 THEN SubSeq(name, Len(name), Len(name)) ELSE SubSeq(name, d, Len(name))

\* file.name.toLowerCase().slice(file.name.lastIndexOf("."))
FileExtension(name) ==
  LET lower == ToLowerCase(name)
      d == LastIndexOf(name, ".", Len(name))
  IN IF d = 0 THEN SubSeq(lower, Len(lower), Len(lower)) ELSE SubSeq(lower, d, Len(lower))

-----------------------------------------------------------------------------
(* Session state                                                            *)
(*   data, selectedRows, fileName, showError, errorMessage: the useState    *)
(*     hooks of the component; selectedRows is a Set, kept here in its      *)
(*     insertion order                                                      *)
(*   reads: the names of the files whose FileReader load is in flight, at   *)
(*     most MaxReads of them                                                *)
(*   out: what the last handler produced outside the session state (the     *)
(*     sheet it decoded, the rows and the worksheet it built, the file it   *)
(*     saved, the alerts it raised)                                         *)

NoOut ==
  [kind |-> "none", raw_data |-> <<>>, headerRowIndex |-> -1,
   selected |-> <<>>, excelData |-> <<>>, ws |-> <<>>, projects |-> <<>>,
   name |-> <<>>, template |-> "none", save |-> "none", written |-> FALSE,
   alerts |-> <<>>]

AlertCanceled == "Export canceled."
AlertFailed == "Export failed"
AlertExcelDone == "Excel exported successfully!"
AlertWordDone == "Word document exported successfully!"

Init ==
  /\ data = <<>>
  /\ selectedRows = <<>>
  /\ fileName = <<>>
  /\ showError = FALSE
  /\ errorMessage = ""
  /\ reads = <<>>
  /\ fetches = <<>>
  /\ out = NoOut

\* selectedRows.has(index)
Has(sel, index) == \E i \in 1..Len(sel) : sel[i] = index

\* the table hidden for as long as an error is shown
TableShownUnlessError == fileName # <<>> /\ Len(data) > 0 /\ ~showError

\* the table, the checkboxes and the export buttons are rendered
TableShown == fileName # <<>> /\ Len(data) > 0

\* handleFileChange for a chosen file: the extension check, then the read
\* is started, with at most limit reads in flight
HandleFileChangeWithin(name, limit) ==
  /\ IF FileExtension(name) \notin ValidExtensions
     THEN /\ errorMessage' = ErrFileType
          /\ showError' = TRUE
          /\ reads' = reads
     ELSE /\ Len(reads) < limit
          /\ reads' = Append(reads, name)
          /\ UNCHANGED <<errorMessage, showError>>
  /\ out' = NoOut
  /\ UNCHANGED <<data, selectedRows, fileName, fetches>>

\* handleFileChange in the session specifications
HandleFileChange(name) == HandleFileChangeWithin(name, MaxReads)

\* reader.onload of the i-th read in flight, the file holding the given sheet
ReaderOnload(i, load) ==
  /\ i \in 1..Len(reads)
  /\ LET sheet == load.sheet
         parsed == load.parsed
     IN /\ IF sheet.readable /\ parsed.ok
           THEN /\ data' = parsed.jsonData
                /\ fileName' = reads[i]
                /\ showError' = FALSE
                /\ UNCHANGED errorMessage
           ELSE /\ errorMessage' = (IF sheet.readable THEN parsed.error ELSE ErrRead)
                /\ showError' = TRUE
                /\ UNCHANGED <<data, fileName>>
        /\ out' = [NoOut EXCEPT !.kind = IF sheet.readable THEN "load" ELSE "unreadable",
                                !.raw_data = sheet.raw_data,
                                !.headerRowIndex = IF sheet.readable THEN parsed.headerRowIndex ELSE -1,
                                !.name = reads[i]]
  /\ reads' = [j \in 1..(Len(reads) - 1) |-> IF j < i THEN reads[j] ELSE reads[j + 1]]
  /\ UNCHANGED <<selectedRows, fetches>>

\* closeError
CloseError ==
  /\ showError
  /\ showError' = FALSE
  /\ errorMessage' = ""
  /\ out' = NoOut
  /\ UNCHANGED <<data, selectedRows, fileName, reads, fetches>>

\* a toggle that only ever adds the index
NewSelectedAddOnly(sel, index) ==
  IF Has(sel, index) THEN sel ELSE Append(sel, index)

\* newSelected: a copy of the Set with index deleted if it has it, added if not
NewSelected(sel, index) ==
  IF Has(sel, index)
  THEN SelectSeq(sel, LAMBDA x : x # index)
  ELSE Append(sel, index)

\* toggleRowSelection(index), from the checkbox of a rendered row
ToggleRowSelection(index) ==
  /\ TableShown
  /\ index \in 0..(Len(data) - 1)
  /\ selectedRows' = NewSelected(selectedRows, index)
  /\ out' = NoOut
  /\ UNCHANGED <<data, fileName, showError, errorMessage, reads, fetches>>

\* the selected records taken in the order the Set lists its indices
GetSelectedDataInSetOrder(d, sel) ==
  LET idx == SelectSeq(sel, LAMBDA x : x < Len(d))
  IN [k \in 1..Len(idx) |-> d[idx[k] + 1]]

\* getSelectedData: data.filter((_, index) => selectedRows.has(index))
GetSelectedData(d, sel) ==
  LET idx == SelectSeq([i \in 1..Len(d) |-> i - 1], LAMBDA x : Has(sel, x))
  IN [k \in 1..Len(idx) |-> d[idx[k] + 1]]

\* the check skipped: an export goes on with no selected record
NoneSelectedIgnored(selected) == FALSE

\* selected.length === 0, the first check of both exports
NoneSelected(selected) == Len(selected) = 0

\* what exportExcelFile tells the user after saveFile ended
ExcelAlerts(outcome) ==
  CASE outcome = "native_canceled" -> <<AlertCanceled>>
    [] outcome \in {"native_write_failed", "native_open_failed"} -> <<AlertFailed>>
    [] OTHER -> <<AlertExcelDone>>

\* exportExcelFile, with saveFile ending in any of its ways
\* an export that unchecks the rows it was given once it has them
ExportExcelFileClearing ==
  /\ TableShown
  /\ selectedRows # <<>>
  /\ selectedRows' = <<>>
  /\ out' = [NoOut EXCEPT !.kind = "excel",
                          !.selected = GetSelectedData(data, selectedRows)]
  /\ UNCHANGED <<data, fileName, reads, fetches, errorMessage, showError>>

ExportExcelFile ==
  /\ TableShown
  /\ \E selected \in {GetSelectedData(data, selectedRows)} :
       IF NoneSelected(selected)
       THEN /\ errorMessage' = ErrNoRows
            /\ showError' = TRUE
            /\ out' = [NoOut EXCEPT !.kind = "excel"]
       ELSE \E cols \in {ExcelColumns(ObjKeys(data[1]))} :
            \E excelData \in {[i \in 1..Len(selected) |-> ExcelRow(selected[i], cols)]} :
            \E ws \in {BuildSheet(excelData)} :
            \E outcome \in SaveOutcomes :
              /\ IF SaveSuccess(outcome)
                 THEN UNCHANGED <<errorMessage, showError>>
                 ELSE errorMessage' = ErrCanceled /\ showError' = TRUE
              /\ out' = [NoOut EXCEPT
                   !.kind = "excel",
                   !.selected = selected,
                   !.excelData = excelData,
                   !.ws = ws,
                   !.name = ExportFileName(fileName),
                   !.save = outcome,
                   !.written = SaveWritten(outcome),
                   !.alerts = ExcelAlerts(outcome)]
  /\ UNCHANGED <<data, selectedRows, fileName, reads, fetches>>

\* what exportWordFile tells the user after saveFile ended
WordAlerts(outcome) ==
  CASE outcome = "native_canceled" -> <<AlertCanceled>>
    [] outcome \in {"native_write_failed", "native_open_failed"} -> <<AlertFailed>>
    [] OTHER -> <<AlertWordDone>>

\* what the closure of an exportWordFile call holds: data and fileName of
\* the render the handler belongs to, and the rows getSelectedData returned
WordClosure == [data |-> data, selected |-> GetSelectedData(data, selectedRows),
                fileName |-> fileName]

\* exportWordFile from the fetch of the template on, with the template and
\* saveFile ending in any of their ways
ExportWordFrom(closure) ==
  \E selected \in {closure.selected} :
  \E cols \in {WordColumns(ObjKeys(closure.data[1]))} :
  \E projects \in {[k \in 1..Len(selected) |-> WordEntry(selected[k], cols, k - 1)]} :
  \E template \in TemplateOutcomes :
    \/ /\ ~TemplateOk(template) /\ template = "not_ok"
       /\ errorMessage' = ErrTemplate
       /\ showError' = TRUE
       /\ out' = [NoOut EXCEPT !.kind = "word", !.selected = selected,
                               !.template = template]
    \/ /\ ~TemplateOk(template) /\ template = "load_throws"
       /\ errorMessage' = ErrExportFailed
       /\ showError' = TRUE
       /\ out' = [NoOut EXCEPT !.kind = "word", !.selected = selected,
                               !.template = template]
    \/ /\ ~TemplateOk(template) /\ template = "render_throws"
       /\ errorMessage' = ErrExportFailed
       /\ showError' = TRUE
       /\ out' = [NoOut EXCEPT !.kind = "word", !.selected = selected,
                               !.projects = projects, !.template = template]
    \/ /\ TemplateOk(template)
       /\ \E outcome \in SaveOutcomes :
            /\ IF SaveSuccess(outcome)
               THEN UNCHANGED <<errorMessage, showError>>
               ELSE errorMessage' = ErrCanceled /\ showError' = TRUE
            /\ out' = [NoOut EXCEPT
                 !.kind = "word",
                 !.selected = selected,
                 !.projects = projects,
                 !.name = WordFileName(closure.fileName),
                 !.template = template,
                 !.save = outcome,
                 !.written = SaveWritten(outcome),
                 !.alerts = WordAlerts(outcome)]

\* exportWordFile when no other handler runs while it waits
ExportWordFile ==
  /\ TableShown
  /\ \E closure \in {WordClosure} :
       IF NoneSelected(closure.selected)
       THEN /\ errorMessage' = ErrNoRows
            /\ showError' = TRUE
            /\ out' = [NoOut EXCEPT !.kind = "word"]
       ELSE ExportWordFrom(closure)
  /\ UNCHANGED <<data, selectedRows, fileName, reads, fetches>>

\* exportWordFile up to its first await: the selection check, then the
\* fetch of the template is started
ExportWordClick ==
  /\ TableShown
  /\ \E closure \in {WordClosure} :
       IF NoneSelected(closure.selected)
       THEN /\ errorMessage' = ErrNoRows
            /\ showError' = TRUE
            /\ out' = [NoOut EXCEPT !.kind = "word"]
            /\ UNCHANGED fetches
       ELSE /\ Len(fetches) < MaxFetches
            /\ fetches' = Append(fetches, closure)
            /\ out' = NoOut
            /\ UNCHANGED <<errorMessage, showError>>
  /\ UNCHANGED <<data, selectedRows, fileName, reads>>

\* the rest of the export taking data and fileName from the session as it
\* is when the template arrives
ExportWordResumeLive(i) ==
  /\ i \in 1..Len(fetches)
  /\ ExportWordFrom([fetches[i] EXCEPT !.data = data, !.fileName = fileName])
  /\ fetches' = [j \in 1..(Len(fetches) - 1) |-> IF j < i THEN fetches[j] ELSE fetches[j + 1]]
  /\ UNCHANGED <<data, selectedRows, fileName, reads>>

\* the i-th waiting exportWordFile goes on when its template fetch settles
ExportWordResume(i) ==
  /\ i \in 1..Len(fetches)
  /\ ExportWordFrom(fetches[i])
  /\ fetches' = [j \in 1..(Len(fetches) - 1) |-> IF j < i THEN fetches[j] ELSE fetches[j + 1]]
  /\ UNCHANGED <<data, selectedRows, fileName, reads>>

\* the steps of a session whose files have the given names and hold the given sheets
NextOver(names, loads) ==
  \/ \E name \in names : HandleFileChange(name)
  \/ \E i \in 1..MaxReads, load \in loads : ReaderOnload(i, load)
  \/ CloseError
  \/ \E index \in 0..(MaxGridRows - 1) : ToggleRowSelection(index)
  \/ ExportExcelFile
  \/ ExportWordFile

Next == NextOver(FileNames, Loads)

\* what the two files of the overlapping imports hold
TwoFiles ==
  [name \in {NameXlsx, NameCsv} |->
     LET rows == IF name = NameXlsx THEN <<HeaderRow, RowA>> ELSE <<HeaderRowBare, RowB, RowA>>
     IN [sheet |-> Sheet(rows), parsed |-> ParseSheet(rows)]]

\* the steps of a session that opens with the import of a.xlsx and in which
\* b.CSV is chosen only while a.xlsx is still being read
NextRace ==
  \/ /\ fileName = <<>>
     /\ reads = <<>>
     /\ HandleFileChangeWithin(NameXlsx, MaxRaceReads)
  \/ /\ reads = <<NameXlsx>>
     /\ HandleFileChangeWithin(NameCsv, MaxRaceReads)
  \/ \E i \in 1..MaxRaceReads : i <= Len(reads) /\ ReaderOnload(i, TwoFiles[reads[i]])
  \/ CloseError
  \/ \E index \in 0..(MaxGridRows - 1) : ToggleRowSelection(index)
  \/ ExportExcelFile
  \/ ExportWordFile

SpecRace == Init /\ [][NextRace]_vars

\* the steps of a session in which imports and toggles go on while
\* document exports wait for the template
NextSnapshot ==
  \/ \E name \in {NameXlsx, NameCsv} : HandleFileChange(name)
  \/ \E i \in 1..MaxReads : i <= Len(reads) /\ ReaderOnload(i, TwoFiles[reads[i]])
  \/ CloseError
  \/ \E index \in 0..(MaxGridRows - 1) : ToggleRowSelection(index)
  \/ ExportWordClick
  \/ \E i \in 1..MaxFetches : ExportWordResume(i)

SpecSnapshot == Init /\ [][NextSnapshot]_vars

Spec == Init /\ [][Next]_vars

\* the steps of a session that imports one-record sheets and exports them
\* as a spreadsheet
NextNumeric ==
  \/ HandleFileChange(NameXlsx)
  \/ \E i \in 1..MaxReads, load \in NumericLoads : ReaderOnload(i, load)
  \/ \E index \in 0..(MaxGridRows - 1) : ToggleRowSelection(index)
  \/ ExportExcelFile

SpecNumeric == Init /\ [][NextNumeric]_vars

\* the steps of a session over one file per way an import can end
NextRecovery == NextOver(FileNames, RecoveryLoads)

SpecRecovery == Init /\ [][NextRecovery]_vars

\* the steps of imports of the label sheets
NextLabels ==
  \/ HandleFileChange(NameXlsx)
  \/ \E i \in 1..MaxReads, load \in LabelLoads : ReaderOnload(i, load)

SpecLabels == Init /\ [][NextLabels]_vars

\* the steps of a session that imports sheets under the header variants
NextHeaders == NextOver({NameXlsx}, HeaderLoads)

SpecHeaders == Init /\ [][NextHeaders]_vars

-----------------------------------------------------------------------------
(* Properties *)

\* the keys the labels of HeaderRow are stored under
QtyKey == normalizeString(HeaderRow[4])
PriceKey == normalizeString(HeaderRow[5])
TotalKey == normalizeString(HeaderRow[6])

\* the numbers the cells of the numeric sheets stand for, 0 for a cell that
\* is blank, textual or absent
Reading(v) ==
  CASE v = Str(<<"3">>) -> Num(3, 0)
    [] v = Str(<<"5">>) -> Num(5, 0)
    [] v = Str(<<"1","0",".","5">>) -> Num(105, 1)
    [] OTHER -> Num(0, 0)

ExcelBuilt == out.kind = "excel" /\ out.selected # <<>>

\* C1: for every non-empty selection of n records the workbook holds the
\* six-label header row followed by exactly n data rows, one per selected
\* record, the first selected record included.
C1_HeaderThenEveryRow ==
  ExcelBuilt =>
    out.ws = <<SheetHeaders>> \o [k \in 1..Len(out.selected) |-> RowCells(out.excelData[k])]

\* C2: the code field of the k-th exported spreadsheet row is the fresh
\* sequential number k, whatever code the record had in the source.
C2_SequentialCodes ==
  ExcelBuilt => \A k \in 1..Len(out.excelData) : out.excelData[k].nPrix = Num(k, 0)

\* the rows an export works on
ExportRows == out.kind \in {"excel", "word"} /\ out.selected # <<>>

\* C3 as stated: exported rows come in the order the records were toggled on.
C3_ToggleOrder ==
  (ExportRows /\ \A k \in 1..Len(selectedRows) : selectedRows[k] < Len(data)) =>
    out.selected = [k \in 1..Len(selectedRows) |-> data[selectedRows[k] + 1]]

\* C3 amended: the rows of an export (spreadsheet and document) are the
\* selected records in ascending dataset position, whatever the order in
\* which they were toggled on.
C3_DatasetOrder ==
  ExportRows =>
    LET S == {i \in 0..(Len(data) - 1) : Has(selectedRows, i)}
    IN /\ Len(out.selected) = Cardinality(S)
       /\ \A i \in S : out.selected[1 + Cardinality({j \in S : j < i})] = data[i + 1]
       /\ out.kind = "excel" => Len(out.excelData) = Len(out.selected)
       /\ out.projects # <<>> =>
            /\ Len(out.projects) = Len(out.selected)
            /\ \A k \in 1..Len(out.projects) : out.projects[k].id = Num(k, 0)

C3_Witness ==
  /\ out.kind = "excel"
  /\ selectedRows = <<1, 0>>
  /\ Len(out.selected) = 2
  /\ out.selected[1] = data[1]
  /\ out.selected[2] = data[2]
  /\ data[1] # data[2]

\* C4: in every reachable state every index of the Selection is a valid
\* index of the current Dataset.
C4_SelectionInBounds ==
  \A k \in 1..Len(selectedRows) : selectedRows[k] \in 0..(Len(data) - 1)

\* C5: right after an import succeeds no record of the new Dataset is selected.
C5_ImportClearsSelection ==
  (out.kind = "load" /\ ~showError) => selectedRows = <<>>

\* C6: a record whose source total parses as a number (0 and negative
\* numbers included) is exported with that number as its total.
C6_SourceTotalWins ==
  ExcelBuilt =>
    \A k \in 1..Len(out.selected) :
      LET source == parseFloat(ObjGet(out.selected[k], TotalKey))
      IN source.t = "num" => out.excelData[k].montant = source

\* C7: a record whose source total is blank, absent or not a number is
\* exported with quantity x price as its total.
C7_MissingTotalRecomputed ==
  ExcelBuilt =>
    \A k \in 1..Len(out.selected) :
      LET row == out.selected[k]
      IN parseFloat(ObjGet(row, TotalKey)).t # "num" =>
           out.excelData[k].montant =
             Times(Reading(ObjGet(row, QtyKey)), Reading(ObjGet(row, PriceKey)))

C7_Witness ==
  /\ ExcelBuilt
  /\ ObjGet(out.selected[1], TotalKey) = Blank
  /\ ObjGet(out.selected[1], QtyKey) = Str(<<"3">>)
  /\ ObjGet(out.selected[1], PriceKey) = Str(<<"1","0",".","5">>)
  /\ out.excelData[1].montant = Num(315, 1)

\* C8: whatever the quantity and price cells hold (blank, text, a missing
\* key, a number) the exported quantity and price are numbers, 0 for an
\* unparsable cell, and the export goes on to build and save the workbook.
C8_ParsingNeverFails ==
  ExcelBuilt =>
    /\ \A k \in 1..Len(out.selected) :
         /\ out.excelData[k].quantite = Reading(ObjGet(out.selected[k], QtyKey))
         /\ out.excelData[k].pu = Reading(ObjGet(out.selected[k], PriceKey))
         /\ out.excelData[k].montant.t = "num"
    /\ Len(out.ws) = Len(out.selected)
    /\ out.save \in SaveOutcomes
    /\ errorMessage # ErrExportFailed

C8_Witness ==
  /\ ExcelBuilt
  /\ ObjGet(out.selected[1], QtyKey) = Str(<<"a","b","c">>)
  /\ ObjGet(out.selected[1], PriceKey) = Blank
  /\ out.excelData[1].quantite = Num(0, 0)
  /\ out.excelData[1].pu = Num(0, 0)
  /\ out.written

\* the sheet the last handler decoded
Loaded == out.kind = "load"

\* C9: header detection yields the index of the first row, top to bottom,
\* holding a cell that normalizes to a text containing the anchor; the rows
\* above it are ignored and the rows strictly after it are the data rows.
C9_FirstHeaderRow ==
  Loaded =>
    LET h == out.headerRowIndex
        rows == out.raw_data
    IN /\ h = -1 <=> \A r \in 1..Len(rows) : ~IsHeaderRow(rows[r])
       /\ h # -1 =>
            /\ h \in 0..(Len(rows) - 1)
            /\ IsHeaderRow(rows[h + 1])
            /\ \A r \in 1..h : ~IsHeaderRow(rows[r])
            /\ ~showError =>
                 [k \in 1..Len(data) |-> ObjValues(data[k])] =
                   SelectSeq(SubSeq(rows, h + 2, Len(rows)), LAMBDA row : row # BlankRow)

C9_Witness ==
  /\ Loaded
  /\ ~showError
  /\ out.headerRowIndex = 1
  /\ out.raw_data = <<RowA, HeaderRow, RowB>>
  /\ Len(data) = 1
  /\ ObjValues(data[1]) = RowB

\* C10: when no cell of the grid matches the anchor the import ends with
\* the HeaderNotFound message shown, and Dataset, file name and Selection
\* are what they were before.
C10_HeaderNotFoundKeepsState ==
  [][(out'.kind = "load" /\ \A r \in 1..Len(out'.raw_data) : ~IsHeaderRow(out'.raw_data[r])) =>
       /\ errorMessage' = ErrHeader
       /\ showError' = TRUE
       /\ data' = data
       /\ fileName' = fileName
       /\ selectedRows' = selectedRows]_vars

C10_Witness ==
  /\ Loaded
  /\ out.raw_data = <<RowA, RowB>>
  /\ errorMessage = ErrHeader
  /\ showError
  /\ data # <<>>
  /\ selectedRows # <<>>
  /\ fileName # out.name

\* a value that is a text of white space only, the empty text included
IsBlankText(v) == v.t = "str" /\ \A i \in 1..Len(v.s) : v.s[i] \in WhiteSpace

\* the records the rows under the header row of the decoded sheet map to
MappedRecords ==
  LET h == out.headerRowIndex
      rows == SubSeq(out.raw_data, h + 2, Len(out.raw_data))
  IN [k \in 1..Len(rows) |-> RowToObject(out.raw_data[h + 1], rows[k], 0, <<>>)]

\* C11: row mapping discards a record exactly when every one of its values
\* is blank after trimming; the Dataset of a successful import is the
\* records with some non-blank value, in source row order, so an all-blank
\* row never appears in it.
C11_DropsExactlyBlankRecords ==
  (Loaded /\ out.headerRowIndex # -1) =>
    LET recs == MappedRecords
        keep == {k \in 1..Len(recs) : \E i \in 1..Len(recs[k]) : ~IsBlankText(recs[k][i].v)}
    IN /\ showError <=> keep = {}
       /\ ~showError =>
            /\ Len(data) = Cardinality(keep)
            /\ \A k \in keep : data[1 + Cardinality({j \in keep : j < k})] = recs[k]
            /\ \A d \in 1..Len(data) : \E i \in 1..Len(data[d]) : ~IsBlankText(data[d][i].v)

C11_Witness ==
  /\ Loaded
  /\ ~showError
  /\ out.raw_data = <<HeaderRow, SpaceRow, RowA>>
  /\ Len(data) = 1
  /\ ObjValues(data[1]) = RowA

\* every row under the header row of the decoded sheet holds blank cells only
OnlyBlankRows(o) ==
  \A r \in (o.headerRowIndex + 2)..Len(o.raw_data) :
    \A c \in 1..Len(o.raw_data[r]) : IsBlankText(o.raw_data[r][c])

\* C12: an import whose mapping leaves zero records ends with the
\* EmptyDataset message and installs nothing (Dataset, file name and
\* Selection stay what they were), so whenever a file name is recorded the
\* Dataset holds at least one record.
C12_DatasetNonEmpty ==
  /\ [](fileName # <<>> => Len(data) >= 1)
  /\ [][(out'.kind = "load" /\ out'.headerRowIndex # -1 /\ OnlyBlankRows(out')) =>
          /\ errorMessage' = ErrNoData
          /\ showError' = TRUE
          /\ data' = data
          /\ fileName' = fileName
          /\ selectedRows' = selectedRows]_vars

C12_Witness ==
  /\ Loaded
  /\ out.raw_data = <<HeaderRow, BlankRow>>
  /\ errorMessage = ErrNoData
  /\ showError
  /\ Len(data) >= 1
  /\ fileName # <<>>

\* C13: every record of an imported Dataset has exactly one key per header
\* column, all distinct and in header order, a blank header (empty or white
\* space only) at column i giving the key col_<i>, whatever the header row
\* (repeated labels and labels that normalize to the same text included).
C13_OneKeyPerHeader ==
  (Loaded /\ ~showError) =>
    LET headers == out.raw_data[out.headerRowIndex + 1]
    IN \A d \in 1..Len(data) :
         /\ Len(data[d]) = Len(headers)
         /\ \A i, j \in 1..Len(data[d]) : i # j => data[d][i].k # data[d][j].k
         /\ \A c \in 1..Len(headers) :
              c <= Len(data[d]) =>
                data[d][c].k = IF IsBlankText(headers[c])
                               THEN <<"c", "o", "l", "_">> \o ToDigits(c - 1)
                               ELSE normalizeString(headers[c])

\* the keys of the records, and the positions of those containing a marker
RecordKeys == ObjKeys(data[1])

Hits(marker) ==
  {i \in 1..Len(RecordKeys) : Includes(normalizeString(Str(RecordKeys[i])), marker)}

\* the value a record holds under the first key containing the marker,
\* undefined when no key contains it
FieldOf(row, marker) ==
  IF Hits(marker) = {} THEN Undefined
  ELSE ObjGet(row, RecordKeys[CHOOSE i \in Hits(marker) : \A h \in Hits(marker) : i <= h])

\* the export was carried through to the save step
Carried ==
  /\ Len(out.ws) = Len(out.selected)
  /\ out.save \in SaveOutcomes
  /\ out.alerts # <<>>

\* C14 as stated: a field no key resolves is exported as empty text, as
\* "Sans Titre" for the title, as 0 for the numbers, and the export succeeds.
C14_UnresolvedEmptyOrZero ==
  ExcelBuilt =>
    /\ Carried
    /\ \A k \in 1..Len(out.selected) :
         /\ Hits(MarkerTitle) = {} => out.excelData[k].designation = Str(SansTitre)
         /\ Hits(MarkerUnit) = {} => out.excelData[k].unite = Str(<<>>)
         /\ Hits(MarkerQty) = {} => out.excelData[k].quantite = Num(0, 0)
         /\ Hits(MarkerPrice) = {} => out.excelData[k].pu = Num(0, 0)
         /\ Hits(MarkerTotal) = {} => out.excelData[k].montant = Num(0, 0)

\* C14 amended: each field is read under the first key, in key order, whose
\* normalized form contains the field's marker; a field no key resolves is
\* exported as "Sans Titre" (title), empty text (code, unit) or 0 (quantity,
\* unit price), an unresolved total is exported as quantity x unit price,
\* and the export is carried through to the save step.
C14_FallbackColumns ==
  ExcelBuilt =>
    /\ Carried
    /\ \A k \in 1..Len(out.selected) :
         LET row == out.selected[k]
             x == out.excelData[k]
         IN /\ x.nPrix = OrElse(FieldOf(row, Anchor), Str(<<>>))
            /\ x.designation = OrElse(FieldOf(row, MarkerTitle), Str(SansTitre))
            /\ x.unite = OrElse(FieldOf(row, MarkerUnit), Str(<<>>))
            /\ x.quantite = parseNumber(FieldOf(row, MarkerQty))
            /\ x.pu = parseNumber(FieldOf(row, MarkerPrice))
            /\ Hits(MarkerTitle) = {} => x.designation = Str(SansTitre)
            /\ Hits(MarkerUnit) = {} => x.unite = Str(<<>>)
            /\ Hits(MarkerQty) = {} => x.quantite = Num(0, 0)
            /\ Hits(MarkerPrice) = {} => x.pu = Num(0, 0)
            /\ Hits(MarkerTotal) = {} => x.montant = Times(x.quantite, x.pu)
            /\ Hits(MarkerTotal) # {} =>
                 x.montant = OrElse(parseNumber(FieldOf(row, MarkerTotal)),
                                    Times(x.quantite, x.pu))

C14_Witness ==
  /\ ExcelBuilt
  /\ Hits(MarkerTotal) = {}
  /\ Hits(MarkerQty) # {}
  /\ Cardinality(Hits(MarkerUnit)) = 1
  /\ out.excelData[1].montant = Num(10, 0)
  /\ out.written

\* C15: the first column the table shows under the quantity name is the
\* column the spreadsheet export reads the quantity from, and the first it
\* shows as "Total HT" is the column the export reads the total from (the markers
\* of display and export agree).
C15_ShownColumnIsExported ==
  TableShown =>
    LET cols == ExcelColumns(RecordKeys)
        FirstShown(name) ==
          {i \in 1..Len(RecordKeys) :
             /\ DisplayName(RecordKeys[i]) = name
             /\ \A j \in 1..(i - 1) : DisplayName(RecordKeys[j]) # name}
    IN /\ \A i \in FirstShown(ShownQty) : cols.qtyCol = RecordKeys[i]
       /\ \A i \in FirstShown(ShownTotal) : cols.totalCol = RecordKeys[i]

\* C16: an export (spreadsheet or document) with no record of the current
\* Dataset selected ends with the EmptySelection message shown and produces
\* nothing: no rows, no worksheet, no entries, no template fetch, no save
\* step, no notification.
C16_EmptySelection ==
  (out.kind \in {"excel", "word"} /\ \A i \in 0..(Len(data) - 1) : ~Has(selectedRows, i)) =>
    /\ errorMessage = ErrNoRows
    /\ showError
    /\ out.template = "none"
    /\ out.save = "none"
    /\ ~out.written
    /\ out.alerts = <<>>
    /\ out.excelData = <<>> /\ out.ws = <<>> /\ out.projects = <<>>

C16_Witness ==
  /\ out.kind = "word"
  /\ selectedRows = <<1>>
  /\ Len(data) = 1
  /\ errorMessage = ErrNoRows
  /\ showError
  /\ out.template = "none"
  /\ ~out.written

\* the document export got as far as building its entries
EntriesBuilt == out.kind = "word" /\ out.template \in {"ok", "render_throws"}

\* C17: the document export builds one entry per selected record, with the
\* ids 1..n in order, each entry holding that record's own title and that
\* same record's description ("Sans Titre" and the empty text when the
\* field is missing), and merges that list as projects.
C17_OneEntryPerRecord ==
  EntriesBuilt =>
    /\ Len(out.projects) = Len(out.selected)
    /\ Len(out.projects) >= 1
    /\ \A k \in 1..Len(out.projects) :
         LET row == out.selected[k]
             x == out.projects[k]
         IN /\ x.id = Num(k, 0)
            /\ x.title = OrElse(FieldOf(row, MarkerTitle), Str(SansTitre))
            /\ x.descriptif = OrElse(FieldOf(row, MarkerDesc), Str(<<>>))
            /\ Hits(MarkerTitle) = {} => x.title = Str(SansTitre)
            /\ Hits(MarkerDesc) = {} => x.descriptif = Str(<<>>)

C17_Witness ==
  /\ EntriesBuilt
  /\ out.written
  /\ Len(out.projects) = 2
  /\ out.projects[1] = [id |-> Num(1, 0), title |-> Str(<<"t","2">>), descriptif |-> Str(<<"d","2">>)]
  /\ out.projects[2] = [id |-> Num(2, 0), title |-> Str(<<"t","1">>), descriptif |-> Str(<<"d","1">>)]

\* C18: a document export whose template cannot be loaded or whose
\* rendering throws ends, in that one attempt, with an error message shown,
\* no save step, no file, no notification, and Dataset, file name and
\* Selection unchanged.
C18_TemplateFailure ==
  [][(out'.kind = "word" /\ out'.template \in {"not_ok", "load_throws", "render_throws"}) =>
       /\ showError' = TRUE
       /\ errorMessage' \in {ErrTemplate, ErrExportFailed}
       /\ out'.save = "none"
       /\ out'.written = FALSE
       /\ out'.alerts = <<>>
       /\ data' = data
       /\ fileName' = fileName
       /\ selectedRows' = selectedRows]_vars

C18_Witness ==
  /\ out.kind = "word"
  /\ out.template = "render_throws"
  /\ out.projects # <<>>
  /\ showError
  /\ errorMessage = ErrExportFailed
  /\ ~out.written

\* the name ends, in any letter case, with an extension of the allow-list
HasAllowedExtension(name) ==
  \E ext \in ValidExtensions :
    /\ Len(name) >= Len(ext)
    /\ ToLowerCase(SubSeq(name, Len(name) - Len(ext) + 1, Len(name))) = ext

\* C19: choosing a file whose name does not end with .xlsx, .xls or .csv
\* (in any letter case; a name with no dot included) ends with the
\* InvalidFileType message shown, starts no read, and leaves Dataset, file
\* name and Selection unchanged; choosing a file with an allowed extension
\* starts its read and raises no error.
C19_ExtensionAllowList ==
  [][\A name \in FileNames :
       HandleFileChange(name) =>
         IF HasAllowedExtension(name)
         THEN /\ reads' = Append(reads, name)
              /\ showError' = showError
              /\ errorMessage' = errorMessage
         ELSE /\ errorMessage' = ErrFileType
              /\ showError' = TRUE
              /\ reads' = reads
              /\ data' = data
              /\ fileName' = fileName
              /\ selectedRows' = selectedRows]_vars

C19_Witness ==
  /\ out = NoOut
  /\ errorMessage = ErrFileType
  /\ showError
  /\ reads = <<>>
  /\ fileName = NameCsv
  /\ Len(data) = 2
  /\ selectedRows = <<1>>

\* a file holding a header row and one record, as reader.onload takes it
ValidLoad ==
  [sheet |-> Sheet(<<HeaderRow, RowA>>), parsed |-> ParseSheet(<<HeaderRow, RowA>>)]

\* C20: no error ends the session.  In every reachable state, whatever
\* error was raised before: a file can be chosen (while fewer than MaxReads
\* reads are in flight), a read in flight of a valid file ends by
\* installing its Dataset with no error shown, a shown error can be closed,
\* and the rows of an installed Dataset can be toggled.  A handler that
\* ends with an error shown leaves Dataset, file name and Selection as they
\* were, and no step takes away the table and the export buttons once they
\* are rendered, so both exports stay available.
C20_SessionGoesOn ==
  /\ [](/\ Len(reads) < MaxReads => ENABLED HandleFileChange(NameXlsx)
        /\ reads # <<>> =>
             ENABLED (/\ ReaderOnload(1, ValidLoad)
                      /\ data' = ValidLoad.parsed.jsonData
                      /\ fileName' = reads[1]
                      /\ showError' = FALSE)
        /\ showError => ENABLED CloseError
        /\ (fileName # <<>> /\ Len(data) > 0) =>
             \A index \in 0..(Len(data) - 1) : ENABLED ToggleRowSelection(index))
  /\ [][/\ (out'.kind # "none" /\ showError') =>
             /\ data' = data
             /\ fileName' = fileName
             /\ selectedRows' = selectedRows
        /\ (fileName # <<>> /\ Len(data) > 0) => (fileName' # <<>> /\ Len(data') > 0)
        /\ TableShown => TableShown']_vars

\* an export carried out while the error of a failed import is still shown
C20_Witness ==
  /\ out.kind = "excel"
  /\ out.written
  /\ showError
  /\ errorMessage = ErrHeader
  /\ Len(out.selected) = 2

-----------------------------------------------------------------------------
(* Normalisation of header labels (SpecLabels) *)

\* a label sheet was read and its records were installed
LabelInstalled == Loaded /\ ~showError /\ Len(out.raw_data) = 2 /\ Len(out.raw_data[1]) = 2

\* the label cell of the sheet that was read
LabelCell == out.raw_data[1][2]

\* the key the import gave to the label column
LabelKey == ObjKeys(data[1])[Len(data[1])]

\* s is as normalizeString leaves a string: no white space at either end,
\* no two white-space characters in a row, no upper-case letter, no
\* combining mark and no character that decomposes
IsNormalShape(s) ==
  /\ s # <<>> => (s[1] \notin WhiteSpace /\ s[Len(s)] \notin WhiteSpace)
  /\ \A i \in 1..(Len(s) - 1) : ~(s[i] \in WhiteSpace /\ s[i + 1] \in WhiteSpace)
  /\ \A i \in 1..Len(s) :
       s[i] \notin UpperSet /\ s[i] \notin CombiningMarks /\ NFDChar(s[i]) = <<s[i]>>

\* C21: normalizeString is idempotent: every key the import produced from a
\* header label is left as it is by a second normalisation, and it has no
\* white space at its ends, no run of two white-space characters, no
\* upper-case letter and no combining mark
C21_NormalizeIdempotent ==
  LabelInstalled =>
    \A k \in 1..Len(data[1]) :
      LET n == ObjKeys(data[1])[k]
      IN /\ normalizeString(Str(n)) = n
         /\ IsNormalShape(n)

\* a label with an upper-case letter, a white-space run and an accented
\* letter was imported and its key differs from the label
C21_Witness ==
  /\ LabelInstalled
  /\ LabelCell = Str(<<"A", " ", "tab", "E_acute">>)
  /\ LabelKey = <<"a", " ", "e">>

LowerSet == {LowerLetters[i] : i \in 1..Len(LowerLetters)}

\* the letters of s in the other case
SwapCase(s) ==
  [i \in 1..Len(s) |->
     IF s[i] \in UpperSet THEN LowerOf[s[i]]
     ELSE IF s[i] \in LowerSet THEN UpperLetters[IndexOf(LowerLetters, s[i], 1)]
     ELSE s[i]]

RECURSIVE Accented(_)
\* s with a combining acute accent after each of its letters
Accented(s) ==
  IF s = <<>> THEN <<>>
  ELSE (IF Head(s) \in UpperSet \cup LowerSet THEN <<Head(s), "acute">> ELSE <<Head(s)>>)
       \o Accented(Tail(s))

RECURSIVE Stretched(_)
\* s with every white-space character followed by one more
Stretched(s) ==
  IF s = <<>> THEN <<>>
  ELSE (IF Head(s) \in WhiteSpace THEN <<Head(s), "tab">> ELSE <<Head(s)>>)
       \o Stretched(Tail(s))

\* s with white space before and after it
Padded(s) == <<"tab", " ">> \o s \o <<" ">>

\* C22: normalizeString is total and insensitive to accents, case and
\* spacing: the key of an imported label equals the normalisation of the
\* label in the other case, with accents added, padded with white space and
\* with longer white-space runs; a label that is not a string gives the
\* empty key; "N deg  Prix" gives the key of "N deg PRIX"
C22_NormalizeInsensitive ==
  LabelInstalled =>
    /\ (LabelCell.t = "str" /\ LabelCell.s # <<>>) =>
         \A v \in {SwapCase(LabelCell.s), Accented(LabelCell.s),
                   Stretched(LabelCell.s), Padded(LabelCell.s)} :
           normalizeString(Str(v)) = LabelKey
    /\ LabelCell.t # "str" => LabelKey = <<>>
    /\ ObjKeys(data[1])[1] = normalizeString(HeaderRow[1])

\* a label with a white-space run between two upper-case letters was
\* imported under the key with one space
C22_Witness ==
  /\ LabelInstalled
  /\ LabelCell = Str(<<"A", "tab", " ", "A">>)
  /\ LabelKey = <<"a", " ", "a">>

\* C23: the spellings "N deg PRIX", "n degprix" (no space) and "N deg  Prix"
\* (two spaces) of the anchor compare equal after normalisation, so a sheet
\* under any of them is detected and imported with the anchor key
C23_AnchorSpellingsDetected ==
  (Loaded /\ Len(out.raw_data) = 2 /\ out.raw_data[1][1] \in AnchorSpellings) =>
    /\ normalizeString(out.raw_data[1][1]) = normalizeString(HeaderRow[1])
    /\ out.headerRowIndex = 0
    /\ ~showError
    /\ ObjKeys(data[1])[1] = Anchor

-----------------------------------------------------------------------------
(* Rows and records (SpecHeaders) *)

\* C28: no data row is lost by mapping: the Dataset has one record for each
\* row under the header row with a cell that is not blank, whatever the
\* header row, each record holds every cell value of its row, and a sheet
\* with such a row is not refused as empty
C28_NoRowLost ==
  (Loaded /\ out.headerRowIndex # -1) =>
    LET rows == SubSeq(out.raw_data, out.headerRowIndex + 2, Len(out.raw_data))
        full == {k \in 1..Len(rows) : \E c \in 1..Len(rows[k]) : ~IsBlankText(rows[k][c])}
    IN /\ showError => full = {}
       /\ ~showError =>
            /\ Len(data) = Cardinality(full)
            /\ \A k \in full :
                 LET d == 1 + Cardinality({j \in full : j < k})
                 IN d <= Len(data) =>
                      \A c \in 1..Len(rows[k]) :
                        \E i \in 1..Len(data[d]) : data[d][i].v = rows[k][c]

-----------------------------------------------------------------------------
(* Selection (Spec) *)

\* the indices a Selection holds
Members(sel) == {sel[i] : i \in 1..Len(sel)}

\* C29: toggleRowSelection(index) changes the membership of index and of no
\* other index, leaves the Dataset, the file name, the error flag and the
\* error message as they are, and a second toggle of the same index gives
\* the Selection there was before the first
C29_ToggleOneIndex ==
  [][\A index \in 0..(MaxGridRows - 1) :
       ToggleRowSelection(index) =>
         /\ Has(selectedRows', index) # Has(selectedRows, index)
         /\ Members(selectedRows') \ {index} = Members(selectedRows) \ {index}
         /\ Len(selectedRows') = Cardinality(Members(selectedRows'))
         /\ data' = data
         /\ fileName' = fileName
         /\ showError' = showError
         /\ errorMessage' = errorMessage
         /\ Members(NewSelected(selectedRows', index)) = Members(selectedRows)]_vars

\* the second of two rows is the one selected by toggles made while an
\* error of an earlier export is shown
C29_Witness ==
  /\ out.kind = "none"
  /\ TableShown
  /\ Len(data) = 2
  /\ selectedRows = <<1>>
  /\ showError
  /\ errorMessage = ErrCanceled

-----------------------------------------------------------------------------
(* The error dialog (Spec) *)

\* the grids of the session's sheets that the import accepts
ValidGrids == {load.sheet.raw_data : load \in {l \in Loads : l.sheet.readable /\ l.parsed.ok}}

\* C30: whenever the error dialog is shown the error message is not empty;
\* closeError hides the dialog and empties the message; an import that
\* installs a Dataset hides the dialog
C30_ShownErrorHasMessage ==
  /\ [](showError => errorMessage # "")
  /\ [][/\ CloseError => (~showError' /\ errorMessage' = "")
        /\ (out'.kind = "load" /\ out'.raw_data \in ValidGrids) =>
             (~showError' /\ fileName' = out'.name /\ Len(data') > 0)]_vars

\* an import installed its Dataset and hid the dialog of an earlier failure,
\* whose message is still held
C30_Witness ==
  /\ Loaded
  /\ ~showError
  /\ errorMessage = ErrRead
  /\ fileName = out.name

-----------------------------------------------------------------------------
(* Exports and the session data (Spec) *)

\* C25: no step of exportExcelFile or exportWordFile, whether it ends in
\* success or on a failure path, changes the Dataset, the Selection or the
\* recorded file name
C25_ExportReadsOnly ==
  [][out'.kind \in {"excel", "word"} =>
       /\ data' = data
       /\ selectedRows' = selectedRows
       /\ fileName' = fileName]_vars

\* a document export failed in render with two rows selected
C25_Witness ==
  /\ out.kind = "word"
  /\ out.template = "render_throws"
  /\ showError
  /\ Len(selectedRows) = 2
  /\ Len(out.projects) = 2

\* C26: an export that wrote a file ends with the success notification and
\* reports no error or cancellation, and an export that ends with another
\* notification has written no file
C26_ReportMatchesFile ==
  [][(out'.kind \in {"excel", "word"} /\ out'.save # "none") =>
       /\ out'.written =>
            /\ out'.alerts \in {<<AlertExcelDone>>, <<AlertWordDone>>}
            /\ UNCHANGED <<showError, errorMessage>>
       /\ out'.alerts \notin {<<AlertExcelDone>>, <<AlertWordDone>>} => ~out'.written]_vars

-----------------------------------------------------------------------------
(* Overlapping imports (SpecRace) *)

\* C24: when import b.CSV was started while a.xlsx was still being read,
\* the Dataset and file name of b.CSV, once installed, are not replaced by
\* those of a.xlsx, whichever read completes first
C24_LastStartedWins ==
  [][(fileName = NameCsv /\ reads = <<NameXlsx>>) =>
       /\ fileName' = NameCsv
       /\ data' = TwoFiles[NameCsv].parsed.jsonData]_vars

-----------------------------------------------------------------------------
(* Document export across its wait (SpecSnapshot) *)

\* C27: a document export is computed from the session as it was when
\* export was clicked: the click keeps the Dataset, the selected records
\* and the file name of that moment, and when the template arrives, after
\* any import or toggle in between, the rows, the title and description
\* columns and the output file name are those of the kept Dataset,
\* selection and file name
C27_ExportFromOneSnapshot ==
  [][/\ Len(fetches') > Len(fetches) =>
          fetches'[Len(fetches')] =
            [data |-> data, selected |-> GetSelectedData(data, selectedRows),
             fileName |-> fileName]
     /\ \A i \in 1..MaxFetches :
          (i <= Len(fetches) /\ ExportWordResume(i)) =>
            LET kept == fetches[i]
                cols == WordColumns(ObjKeys(kept.data[1]))
            IN /\ out'.selected = kept.selected
               /\ \A k \in 1..Len(kept.selected) :
                    \E d \in 1..Len(kept.data) : kept.selected[k] = kept.data[d]
               /\ out'.template \in {"ok", "render_throws"} =>
                    out'.projects =
                      [k \in 1..Len(kept.selected) |-> WordEntry(kept.selected[k], cols, k - 1)]
               /\ out'.template = "ok" => out'.name = WordFileName(kept.fileName)]_vars

\* a document of a.xlsx was saved after b.CSV, with other columns, took
\* its place in the session while the template was fetched
C27_Witness ==
  /\ out.kind = "word"
  /\ out.template = "ok"
  /\ out.written
  /\ fetches = <<>>
  /\ fileName = NameCsv
  /\ data = TwoFiles[NameCsv].parsed.jsonData
  /\ out.name = WordFileName(NameXlsx)
  /\ out.selected = TwoFiles[NameXlsx].parsed.jsonData
  /\ Len(out.projects) = 1

====
